---- MODULE Spec2Model ----
(***************************************************************************)
(* Model of olympe/_private/pomp_loop_thread.py: the chainable Future and  *)
(* the PompLoopThread that runs submitted tasks on one loop thread.        *)
(*                                                                         *)
(* The loop thread is a process with a program position (pc); the public   *)
(* API calls made by a foreign thread are atomic steps (each Python list   *)
(* operation they perform is atomic under the interpreter lock).  The      *)
(* native reactor (libpomp) is the environment: its answers are chosen     *)
(* nondeterministically.                                                   *)
(***************************************************************************)
EXTENDS Integers, Sequences, FiniteSets, TLC

(***************************************************************************)
(* Bounds of the model.                                                    *)
(***************************************************************************)
\* futures that the calls of the foreign thread may create, in all
MaxFutures == 3
\* the same, where the foreign thread composes futures with then (SpecThen)
MaxThenFutures == 4
\* cancel() calls of the foreign thread
MaxCancels == 1
\* file descriptors are 1..MaxFd
MaxFd == 1
\* arguments given to the submitted callables are 0..MaxArg
MaxArg == 0
\* cleanup functions that may be registered
MaxCleanup == 2
\* timers that may exist at a time
MaxTimers == 1
\* calls of od.pomp_timer_destroy the foreign thread may make
MaxTimerCalls == 1
\* futures the foreign thread may ask for where it registers cleanup functions
\* and timers (SpecReg)
MaxRegFutures == 1

(***************************************************************************)
(* Program constants.                                                      *)
(***************************************************************************)
\* _cleanup: "if count > 30: ... break"
DrainLimit == 30

VARIABLES
    running,             \* PompLoopThread.running
    pc,                  \* position of the loop thread in start()/run()
    count,               \* local "count" of _cleanup
    async_pomp_task,     \* PompLoopThread.async_pomp_task
    deferred_pomp_task,  \* PompLoopThread.deferred_pomp_task
    futures,             \* PompLoopThread.futures (ids of the live futures)
    fut,                 \* the Future objects, by id (creation order)
    wakeup_evt,          \* the wake event is signalled and not yet acknowledged
    pomp_events,         \* the wake event is in PompLoopThread.pomp_events
    pomp_loop,           \* PompLoopThread.pomp_loop is not None
    pomp_fd_callbacks,   \* PompLoopThread.pomp_fd_callbacks (fd -> callback)
    fd_userdata,         \* PompLoopThread.fd_userdata (fd -> userdata)
    c_fd_userdata,       \* PompLoopThread.c_fd_userdata (keys)
    reactor,             \* the reactor's own state: registered fds, call counts
    main_alive,          \* main_thread.is_alive()
    stopper,             \* position of the foreign thread inside stop()
    strict,              \* the interpreter's set_result/set_exception refuse a done future
    budget,              \* futures and cancels the foreign thread may still ask for
    cleanup_functions,   \* PompLoopThread.cleanup_functions
    cleanup_it,          \* _cleanup: index the iterator reversed(...) yields next
    pomp_timers,         \* PompLoopThread.pomp_timers / pomp_timer_callbacks (keys)
    hist                 \* history: the executions in order (exec), the chain and
                         \* then calls made, the immediate tasks queued when the
                         \* poll cycle began (cycle), the appends made to the task
                         \* lists (nappend) and how many of them when the loop
                         \* thread ended (ended), the last operation on each fd
                         \* (fdop), whether the reactor has dispatched the
                         \* callback of an fd since it was last added (disp),
                         \* what stop() last returned to the foreign thread
                         \* (stop), how far the loop thread got in leaving
                         \* (exit), the cleanup functions found at _cleanup
                         \* (atexit) and those called, in order (cleaned), the
                         \* tasks queued when stop() was called (atstop)

vars == << running, pc, count, async_pomp_task, deferred_pomp_task, futures, fut,
           wakeup_evt, pomp_events, pomp_loop, pomp_fd_callbacks, fd_userdata,
           c_fd_userdata, reactor, main_alive, stopper, strict, budget,
           cleanup_functions, cleanup_it, pomp_timers, hist >>

(***************************************************************************)
(* Values: what a callable returns or raises, what a Future holds.         *)
(*   k = "val"  an integer v          k = "fut"  the Future object with id v*)
(*   k = "none" Python's None         k = "bool" False (v = 0) / True (v = 1)*)
(*   k = "exc"  an Exception e raised k = "base" a non-Exception BaseException*)
(***************************************************************************)
Val(n) == [k |-> "val", v |-> n, e |-> ""]
FutObj(f) == [k |-> "fut", v |-> f, e |-> ""]
NoneV == [k |-> "none", v |-> 0, e |-> ""]
BoolV(b) == [k |-> "bool", v |-> IF b THEN 1 ELSE 0, e |-> ""]
Exc(name) == [k |-> "exc", v |-> 0, e |-> name]
BaseExc(name) == [k |-> "base", v |-> 0, e |-> name]

IsRaise(out) == out.k \in {"exc", "base"}

(***************************************************************************)
(* The machine: the part of the state that running a callable or a done    *)
(* callback can change, with the stack of the calls still to be made in    *)
(* the current step (top first), the value the last callable returned or   *)
(* raised (ret) and the exception that leaves the step (raised).  The      *)
(* operators below take a machine and give the machine after the call; a   *)
(* call that runs callbacks or callables pushes them on the stack, and Run *)
(* makes them, innermost first, until none is left.                        *)
(*   thr is the thread that makes the step, ans the answer the reactor     *)
(*   gives to the call made during the step, if any.                       *)
(***************************************************************************)
Machine(thr, ans) ==
    [fut |-> fut, async |-> async_pomp_task, deferred |-> deferred_pomp_task,
     live |-> futures, wake |-> wakeup_evt, fdcb |-> pomp_fd_callbacks,
     fdud |-> fd_userdata, cfdud |-> c_fd_userdata, reactor |-> reactor,
     hist |-> hist, strict |-> strict, running |-> running, thr |-> thr,
     ans |-> ans, stack |-> << >>, ret |-> NoneV, raised |-> NoneV]

\* Future.__init__: a new PENDING future; its id is its position in fut.
\* The other fields are history: what created it (origin: run_async queueing
\* it, run_async calling in place, run_later, then), on which thread (by), for
\* which callable and argument, its place in the order of the appends to the
\* task lists (seq), for a run_later of the foreign thread, the immediate
\* tasks queued at that moment (before), and, for a run_async of the foreign
\* thread, the task it was queued right behind (behind, 0 for none).
NewFuture(origin, by, fn, arg) ==
    [state |-> "PENDING", result |-> NoneV, exception |-> "", cbs |-> << >>,
     origin |-> origin, by |-> by, fn |-> fn, arg |-> arg, seq |-> 0, before |-> {},
     behind |-> 0]

\* concurrent.futures.Future.done()
Done(m, f) == m.fut[f].state \in {"CANCELLED", "CANCELLED_AND_NOTIFIED", "FINISHED"}

\* concurrent.futures.Future.cancelled()
Cancelled(m, f) == m.fut[f].state \in {"CANCELLED", "CANCELLED_AND_NOTIFIED"}

\* a done callback, as registered with add_done_callback
NoCb == [cb |-> "", to |-> 0, fn |-> "", deferred |-> FALSE]
UnregisterCb(f) == [cb |-> "unregister", to |-> f, fn |-> "", deferred |-> FALSE]
ChainCb(next) == [cb |-> "chain", to |-> next, fn |-> "", deferred |-> FALSE]
ThenCb(result, fn, deferred) == [cb |-> "then", to |-> result, fn |-> fn, deferred |-> deferred]

\* the calls still to be made
Frame(op, f, i, val, cb, fn) == [op |-> op, f |-> f, i |-> i, val |-> val, cb |-> cb, fn |-> fn]
\* _invoke_callbacks of f, from its i-th callback on
InvokeFrame(f, i) == Frame("invoke", f, i, NoneV, NoCb, "")
\* the callback cb of the done future f
CallbackFrame(f, cb) == Frame("callback", f, 0, NoneV, cb, "")
\* fn(arg), called for the future f
CallFrame(fn, arg, f) == Frame("call", f, 0, arg, NoCb, fn)
\* the rest of run_async on the loop thread, once func has returned or raised
AfterInlineFrame(f) == Frame("after_inline", f, 0, NoneV, NoCb, "")
\* the rest of the turn of _run_task_list, once f has returned or raised
AfterTaskFrame(f) == Frame("after_task", f, 0, NoneV, NoCb, "")
\* the rest of the callback of then, once fn has returned or raised
AfterThenFrame(f) == Frame("after_then", f, 0, NoneV, NoCb, "")
\* return val to the caller
ReturnFrame(val) == Frame("return", 0, 0, val, NoCb, "")

Push(m, frames) == [m EXCEPT !.stack = frames \o @]

\* PompLoopThread._register_future
RegisterFuture(m, f) == [m EXCEPT !.live = @ \cup {f}]

\* PompLoopThread._unregister_future(f, ignore_error=True)
UnregisterFuture(m, f) == [m EXCEPT !.live = @ \ {f}]

\* the callables the model submits; the ones that call back into the loop name
\* the callable they pass on
Callables == {"inc", "raise", "raise_base", "later_inc", "async_inc", "async_raise",
              "async_later", "add_fd", "add_fd_nocb", "remove_fd", "stop"}
Inner(fn) ==
    CASE fn = "later_inc" -> "inc"
      [] fn = "async_inc" -> "inc"
      [] fn = "async_raise" -> "raise"
      [] fn = "async_later" -> "later_inc"
      [] OTHER -> ""

\* concurrent.futures.Future.set_result.  A strict interpreter refuses a
\* future that is already done (InvalidStateError); an older one overwrites
\* it and runs the callbacks again.
SetResult(m, f, res) ==
    IF m.strict /\ Done(m, f) THEN [m EXCEPT !.raised = Exc("InvalidStateError")]
    ELSE Push([m EXCEPT !.fut[f].state = "FINISHED", !.fut[f].result = res],
              << InvokeFrame(f, 1) >>)

\* concurrent.futures.Future.set_exception
SetException(m, f, exc) ==
    IF m.strict /\ Done(m, f) THEN [m EXCEPT !.raised = Exc("InvalidStateError")]
    ELSE Push([m EXCEPT !.fut[f].state = "FINISHED", !.fut[f].exception = exc],
              << InvokeFrame(f, 1) >>)

\* concurrent.futures.Future.cancel
CancelFuture(m, f) ==
    IF m.fut[f].state \in {"RUNNING", "FINISHED", "CANCELLED", "CANCELLED_AND_NOTIFIED"}
    THEN m
    ELSE Push([m EXCEPT !.fut[f].state = "CANCELLED"], << InvokeFrame(f, 1) >>)

\* set_from without "if source.cancelled(): self.cancel()"
SetFromNoCancel(m, self, source) ==
    IF Cancelled(m, source) THEN m
    ELSE IF Done(m, self) THEN m
    ELSE IF m.fut[self].state # "PENDING" THEN m
    ELSE IF m.fut[source].exception # ""
    THEN SetException([m EXCEPT !.fut[self].state = "RUNNING"], self,
                      m.fut[source].exception)
    ELSE SetResult([m EXCEPT !.fut[self].state = "RUNNING"], self, m.fut[source].result)

\* Future.set_from(source), called from the chain callback of a done source
SetFrom(m, self, source) ==
    IF Cancelled(m, source) THEN CancelFuture(m, self)
    ELSE IF Done(m, self) THEN m
    ELSE IF m.fut[self].state # "PENDING" THEN m  \* set_running_or_notify_cancel raises
    ELSE IF m.fut[source].exception # ""
    THEN SetException([m EXCEPT !.fut[self].state = "RUNNING"], self,
                      m.fut[source].exception)
    ELSE SetResult([m EXCEPT !.fut[self].state = "RUNNING"], self, m.fut[source].result)

\* concurrent.futures.Future.add_done_callback: kept for later, or run at once
\* on the calling thread when the future is already done
AddDoneCallback(m, f, cb) ==
    IF Done(m, f) THEN Push(m, << CallbackFrame(f, cb) >>)
    ELSE [m EXCEPT !.fut[f].cbs = Append(@, cb)]

\* Future.chain(next_)
Chain(m, self, next) ==
    AddDoneCallback([m EXCEPT !.hist.chains = @ \cup {<< self, next >>}],
                    self, ChainCb(next))

\* the id of the future that Future(loop) creates next
NextId(m) == Len(m.fut) + 1

\* Future(loop) followed by Future._register; the new future is NextId(m)
CreateFuture(m, origin, fn, arg) ==
    AddDoneCallback(RegisterFuture([m EXCEPT !.fut = Append(@, NewFuture(origin, m.thr, fn, arg))],
                                   NextId(m)),
                    NextId(m), UnregisterCb(NextId(m)))

\* a task entry (future, func, args, kwds)
Task(f, fn, arg) == [future |-> f, fn |-> fn, arg |-> arg]

\* the futures of the entries of a task list
QueuedFutures(q) == {q[i].future : i \in 1..Len(q)}

\* PompLoopThread.run_later; the future it returns is NextId(m)
RunLater(m, fn, arg) ==
    [CreateFuture(m, "later", fn, arg) EXCEPT
        !.deferred = Append(@, Task(NextId(m), fn, arg)),
        !.fut[NextId(m)].seq = m.hist.nappend + 1,
        !.fut[NextId(m)].before = IF m.thr = "foreign" THEN QueuedFutures(m.async) ELSE {},
        !.hist.nappend = @ + 1]

\* PompLoopThread._wake_up
WakeUp(m) == [m EXCEPT !.wake = TRUE]

\* run_async without the test of the calling thread: the task is always queued
RunAsyncAlwaysQueued(m, fn, arg) ==
    WakeUp([CreateFuture(m, "async", fn, arg) EXCEPT
               !.async = Append(@, Task(NextId(m), fn, arg)),
               !.fut[NextId(m)].seq = m.hist.nappend + 1,
               !.hist.nappend = @ + 1,
               !.ret = FutObj(NextId(m))])

\* PompLoopThread.run_async; the future it returns is NextId(m).  On the loop
\* thread func is called in place and the rest follows once it has returned.
RunAsync(m, fn, arg) ==
    IF m.thr # "loop"
    THEN WakeUp([CreateFuture(m, "async", fn, arg) EXCEPT
                    !.async = Append(@, Task(NextId(m), fn, arg)),
                    !.fut[NextId(m)].seq = m.hist.nappend + 1,
                    !.fut[NextId(m)].behind =
                        IF m.async = << >> THEN 0 ELSE m.async[Len(m.async)].future,
                    !.hist.nappend = @ + 1])
    ELSE Push(CreateFuture(m, "inline", fn, arg),
              << CallFrame(fn, arg, NextId(m)), AfterInlineFrame(NextId(m)) >>)

\* run_async on the loop thread, after ret = func(*args): the future f takes
\* the exception, is chained to the Future returned, or takes the result; a
\* failure that is no Exception goes on to the caller
AfterInline(m, f) ==
    CASE m.ret.k = "exc" -> SetException(Push(m, << ReturnFrame(FutObj(f)) >>), f, m.ret.e)
      [] m.ret.k = "base" -> m
      [] m.ret.k = "fut" -> Chain(Push(m, << ReturnFrame(FutObj(f)) >>), m.ret.v, f)
      [] OTHER -> SetResult(Push(m, << ReturnFrame(FutObj(f)) >>), f, m.ret)

\* od.pomp_loop_add: [reactor, res]; the reactor refuses an fd it already watches
\* and may fail for reasons of its own (m.ans)
PompLoopAdd(m, fd) ==
    IF m.ans = "ok" /\ fd \notin m.reactor.fds
    THEN [reactor |-> [m.reactor EXCEPT !.fds = @ \cup {fd}, !.adds = @ + 1], res |-> 0]
    ELSE [reactor |-> [m.reactor EXCEPT !.adds = @ + 1], res |-> -1]

\* od.pomp_loop_remove: [reactor, res]; the reactor does not know an fd it does
\* not watch and may fail for reasons of its own (m.ans)
PompLoopRemove(m, fd) ==
    IF m.ans = "ok" /\ fd \in m.reactor.fds
    THEN [reactor |-> [m.reactor EXCEPT !.fds = @ \ {fd}, !.removes = @ + 1], res |-> 0]
    ELSE [reactor |-> [m.reactor EXCEPT !.removes = @ + 1], res |-> -1]

\* PompLoopThread._add_fd_to_loop(fd, cb, fd_events, userdata); m.ret is what it
\* returns or raises
AddFdToLoop(m, fd, cb) ==
    IF cb = "None" THEN [m EXCEPT !.ret = NoneV]
    ELSE [m EXCEPT !.fdud = @ \cup {fd}, !.cfdud = @ \cup {fd}, !.fdcb = @ \cup {fd},
                   !.reactor = PompLoopAdd(m, fd).reactor,
                   !.hist.fdop[fd] = "add",
                   !.hist.disp[fd] = FALSE,
                   !.ret = IF PompLoopAdd(m, fd).res # 0 THEN Exc("RuntimeError") ELSE NoneV]

\* _remove_fd_from_loop without the test of the registry: the reactor is
\* always asked
RemoveFdAlwaysAsks(m, fd) ==
    [m EXCEPT !.fdud = @ \ {fd}, !.cfdud = @ \ {fd}, !.fdcb = @ \ {fd},
              !.reactor = PompLoopRemove(m, fd).reactor,
              !.hist.fdop[fd] = "remove",
              !.ret = BoolV(PompLoopRemove(m, fd).res = 0)]

\* PompLoopThread._remove_fd_from_loop(fd); m.ret is what it returns
RemoveFdFromLoop(m, fd) ==
    IF fd \in m.fdcb
    THEN [m EXCEPT !.fdud = @ \ {fd}, !.cfdud = @ \ {fd}, !.fdcb = @ \ {fd},
                   !.reactor = PompLoopRemove(m, fd).reactor,
                   !.hist.fdop[fd] = "remove",
                   !.ret = BoolV(PompLoopRemove(m, fd).res = 0)]
    ELSE [m EXCEPT !.fdud = @ \ {fd}, !.cfdud = @ \ {fd},
                   !.hist.fdop[fd] = "remove",
                   !.ret = BoolV(TRUE)]

\* PompLoopThread.stop called on the loop thread: the flag is flipped, there
\* is no wake-up and no join; m.ret is what it returns
StopOnLoop(m) ==
    IF ~m.running THEN [m EXCEPT !.ret = BoolV(FALSE)]
    ELSE [m EXCEPT !.running = FALSE, !.ret = BoolV(TRUE),
                   !.hist.atstop = QueuedFutures(m.async) \cup QueuedFutures(m.deferred)]

\* "inc": lambda x: x + 1
Inc(arg) == IF arg.k = "val" THEN Val(arg.v + 1) ELSE Exc("TypeError")

\* the call func(*args) made on the loop thread for the future f; m.ret is the
\* value returned or the exception raised
Call(m, fn, arg, f) ==
    CASE fn = "inc" -> [m EXCEPT !.hist.exec = Append(@, f), !.ret = Inc(arg)]
      [] fn = "raise" -> [m EXCEPT !.hist.exec = Append(@, f), !.ret = Exc("Error")]
      [] fn = "raise_base" ->
           [m EXCEPT !.hist.exec = Append(@, f), !.ret = BaseExc("SystemExit")]
      [] fn = "later_inc" ->
           [RunLater(m, Inner(fn), arg) EXCEPT !.hist.exec = Append(@, f),
                                               !.ret = FutObj(NextId(m))]
      [] fn \in {"async_inc", "async_raise", "async_later"} ->
           [RunAsync(m, Inner(fn), arg) EXCEPT !.hist.exec = Append(@, f)]
      [] fn = "add_fd" -> AddFdToLoop([m EXCEPT !.hist.exec = Append(@, f)], arg.v, "cb")
      [] fn = "add_fd_nocb" ->
           AddFdToLoop([m EXCEPT !.hist.exec = Append(@, f)], arg.v, "None")
      [] fn = "remove_fd" ->
           RemoveFdFromLoop([m EXCEPT !.hist.exec = Append(@, f)], arg.v)
      [] fn = "stop" -> StopOnLoop([m EXCEPT !.hist.exec = Append(@, f)])

\* the callback of Future.then, run when self is done, up to the call of fn
ThenCallback(m, self, cb) ==
    IF Cancelled(m, self) \/ m.fut[self].exception # ""
    THEN m  \* self.result() raises; the handler raises on self.logging
    ELSE IF cb.deferred
    THEN Chain(RunLater(m, cb.fn, m.fut[self].result), NextId(m), cb.to)
    ELSE IF m.thr # "loop"
    THEN Chain(RunAsync(m, cb.fn, m.fut[self].result), NextId(m), cb.to)
    ELSE Push(m, << CallFrame(cb.fn, m.fut[self].result, cb.to), AfterThenFrame(cb.to) >>)

\* a raised exception is dropped
Swallow(m) == [m EXCEPT !.raised = NoneV]

\* the callback of Future.then on the loop thread, after fn(self.result()):
\* result.set_result(...), except Exception, except
AfterThen(m, result) ==
    CASE m.ret.k = "exc" -> m  \* the handler raises on self.logging
      [] m.ret.k = "base" -> CancelFuture(m, result)
      [] OTHER -> Swallow(SetResult(m, result, m.ret))

\* one done callback of the future f
RunCallback(m, f, cb) ==
    CASE cb.cb = "unregister" -> UnregisterFuture(m, cb.to)
      [] cb.cb = "chain" -> SetFrom(m, cb.to, f)
      [] cb.cb = "then" -> ThenCallback(m, f, cb)

\* concurrent.futures.Future._invoke_callbacks: the done callbacks of f in the
\* order of registration, from the i-th on
InvokeCallbacks(m, f, i) ==
    IF i > Len(m.fut[f].cbs) THEN m
    ELSE Push(m, << CallbackFrame(f, m.fut[f].cbs[i]), InvokeFrame(f, i + 1) >>)

\* Future.then(fn, deferred); the future it returns is NextId(m)
Then(m, self, fn, deferred) ==
    AddDoneCallback([CreateFuture(m, "then", fn, NoneV) EXCEPT
                        !.hist.thens = @ \cup {<< self, NextId(m) >>}],
                    self, ThenCb(NextId(m), fn, deferred))

\* _run_task_list without the try around f(*args): what f raises leaves it
AfterTaskNoTry(m, f) ==
    CASE m.ret.k \in {"exc", "base"} -> [m EXCEPT !.raised = m.ret]
      [] m.ret.k = "fut" -> Chain(m, m.ret.v, f)
      [] OTHER -> SetResult(m, f, m.ret)

\* _run_task_list without the isinstance test: set_result of whatever f returned
AfterTaskNoChain(m, f) ==
    CASE m.ret.k = "exc" -> SetException(m, f, m.ret.e)
      [] m.ret.k = "base" -> [m EXCEPT !.raised = m.ret]
      [] OTHER -> SetResult(m, f, m.ret)

\* one turn of the while loop of _run_task_list, after ret = f(*args): the
\* task's future takes the exception, is chained to the Future returned, or
\* takes the result; what is raised here leaves _run_task_list
AfterTask(m, f) ==
    CASE m.ret.k = "exc" -> SetException(m, f, m.ret.e)
      [] m.ret.k = "base" -> [m EXCEPT !.raised = m.ret]
      [] m.ret.k = "fut" -> Chain(m, m.ret.v, f)
      [] OTHER -> SetResult(m, f, m.ret)

\* one turn of the while loop of _run_task_list on the popped task
RunTask(m, task) ==
    Push(m, << CallFrame(task.fn, task.arg, task.future), AfterTaskFrame(task.future) >>)

\* the call on top of the stack is made
Step(m, fr) ==
    CASE fr.op = "invoke" -> InvokeCallbacks(m, fr.f, fr.i)
      [] fr.op = "callback" -> RunCallback(m, fr.f, fr.cb)
      [] fr.op = "call" -> Call(m, fr.fn, fr.val, fr.f)
      [] fr.op = "after_inline" -> AfterInline(m, fr.f)
      [] fr.op = "after_task" -> AfterTask(m, fr.f)
      [] fr.op = "after_then" -> AfterThen(m, fr.f)
      [] fr.op = "return" -> [m EXCEPT !.ret = fr.val]

\* the calls on the stack are made until none is left
RECURSIVE Run(_)
Run(m) ==
    IF m.stack = << >> THEN m
    ELSE Run(Step([m EXCEPT !.stack = Tail(@)], Head(m.stack)))

(***************************************************************************)
(* The state after PompLoopThread.__init__.                                *)
(***************************************************************************)
Fds == 1..MaxFd
Timers == 1..MaxTimers
Args == {Val(n) : n \in 0..MaxArg}

\* the foreign thread may ask for nf futures and nc cancels
InitWith(nf, nc) ==
    /\ running = FALSE
    /\ pc = "new"
    /\ count = 0
    /\ async_pomp_task = << >>
    /\ deferred_pomp_task = << >>
    /\ futures = {}
    /\ fut = << >>
    /\ wakeup_evt = FALSE
    /\ pomp_events = {}
    /\ pomp_loop = TRUE
    /\ pomp_fd_callbacks = {}
    /\ fd_userdata = {}
    /\ c_fd_userdata = {}
    /\ reactor = [fds |-> {}, evts |-> {}, timers |-> {}, adds |-> 0, removes |-> 0]
    /\ cleanup_functions = << >>
    /\ cleanup_it = 0
    /\ pomp_timers = {}
    /\ main_alive = TRUE
    /\ stopper = "idle"
    /\ strict \in BOOLEAN
    /\ budget = [futures |-> nf, cancels |-> nc]
    /\ hist = [exec |-> << >>, chains |-> {}, thens |-> {}, cycle |-> {},
               nappend |-> 0, ended |-> 0, fdop |-> [fd \in Fds |-> "none"],
               disp |-> [fd \in Fds |-> FALSE], stop |-> "none", exit |-> "none",
               atexit |-> << >>, cleaned |-> << >>, atstop |-> {}]

Init == InitWith(MaxFutures, MaxCancels)

\* the machine's state written back to the variables
SetHeap(h) ==
    /\ fut' = h.fut
    /\ async_pomp_task' = h.async
    /\ deferred_pomp_task' = h.deferred
    /\ futures' = h.live
    /\ wakeup_evt' = h.wake
    /\ pomp_fd_callbacks' = h.fdcb
    /\ fd_userdata' = h.fdud
    /\ c_fd_userdata' = h.cfdud
    /\ reactor' = h.reactor
    /\ hist' = h.hist

heapVars == << fut, async_pomp_task, deferred_pomp_task, futures, wakeup_evt,
               pomp_fd_callbacks, fd_userdata, c_fd_userdata, reactor, hist >>

(***************************************************************************)
(* The loop thread: PompLoopThread.run and what it calls.                  *)
(***************************************************************************)

\* task_list.pop(): the last task, not the first
PopLastTask(q) == [task |-> q[Len(q)], rest |-> SubSeq(q, 1, Len(q) - 1)]

\* task_list.pop(0): the task popped, the list left
PopTask(q) == [task |-> Head(q), rest |-> Tail(q)]

\* _run_task_list(self.async_pomp_task), one task at a time; an exception that
\* leaves it goes to escape, the end of the list to next
RunAsyncList(at, next, escape) ==
    /\ pc = at
    /\ IF async_pomp_task = << >>
       THEN /\ pc' = next
            /\ UNCHANGED << heapVars, running >>
       ELSE \E ans \in {"ok", "fail"} :
              LET m == Run(RunTask([Machine("loop", ans) EXCEPT
                                        !.async = PopTask(async_pomp_task).rest],
                                   PopTask(async_pomp_task).task))
              IN /\ SetHeap(m)
                 /\ running' = m.running
                 /\ pc' = IF IsRaise(m.raised) THEN escape ELSE at
    /\ UNCHANGED << count, pomp_events, pomp_loop, main_alive, stopper, strict, budget,
                    cleanup_functions, cleanup_it, pomp_timers >>

\* _run_task_list(self.deferred_pomp_task)
RunDeferredList(at, next, escape) ==
    /\ pc = at
    /\ IF deferred_pomp_task = << >>
       THEN /\ pc' = next
            /\ UNCHANGED << heapVars, running >>
       ELSE \E ans \in {"ok", "fail"} :
              LET m == Run(RunTask([Machine("loop", ans) EXCEPT
                                        !.deferred = PopTask(deferred_pomp_task).rest],
                                   PopTask(deferred_pomp_task).task))
              IN /\ SetHeap(m)
                 /\ running' = m.running
                 /\ pc' = IF IsRaise(m.raised) THEN escape ELSE at
    /\ UNCHANGED << count, pomp_events, pomp_loop, main_alive, stopper, strict, budget,
                    cleanup_functions, cleanup_it, pomp_timers >>

\* run: _add_event_to_loop(self.wakeup_evt, ...), before the try; a failure to
\* attach raises RuntimeError and ends the thread
LoopAttach ==
    /\ pc = "attach"
    /\ pomp_events' = pomp_events \cup {"wakeup_evt"}
    /\ \E ans \in {"ok", "fail"} :
         IF ans = "ok"
         THEN /\ reactor' = [reactor EXCEPT !.evts = @ \cup {"wakeup_evt"}]
              /\ pc' = "cond"
         ELSE /\ reactor' = reactor
              /\ pc' = "dead"
    /\ UNCHANGED << running, count, async_pomp_task, deferred_pomp_task, futures, fut,
                    wakeup_evt, pomp_loop, pomp_fd_callbacks, fd_userdata,
                    c_fd_userdata, main_alive, stopper, strict, budget, hist,
                    cleanup_functions, cleanup_it, pomp_timers >>

\* run: while self.running and main_thread.is_alive()
LoopCond ==
    /\ pc = "cond"
    /\ pc' = IF running /\ main_alive THEN "wait" ELSE "finally"
    /\ hist' = [hist EXCEPT !.cycle = QueuedFutures(async_pomp_task)]
    /\ UNCHANGED << running, count, async_pomp_task, deferred_pomp_task, futures, fut,
                    wakeup_evt, pomp_events, pomp_loop, pomp_fd_callbacks, fd_userdata,
                    c_fd_userdata, reactor, main_alive, stopper, strict, budget,
                    cleanup_functions, cleanup_it, pomp_timers >>

\* od.pomp_loop_wait_and_process: the reactor dispatches the callbacks of the
\* fds d, among those registered with it, that are ready
Dispatch(h, d) == [h EXCEPT !.disp = [fd \in Fds |-> @[fd] \/ fd \in d]]

\* run: self._wait_and_process() inside try/except RuntimeError: the wait ends
\* on the wake event or on the timeout, and a RuntimeError is logged
LoopWait ==
    /\ pc = "wait"
    /\ wakeup_evt' = FALSE
    /\ \E d \in SUBSET reactor.fds : hist' = Dispatch(hist, d)
    /\ pc' = "run_async"
    /\ UNCHANGED << running, count, async_pomp_task, deferred_pomp_task, futures, fut,
                    pomp_events, pomp_loop, pomp_fd_callbacks, fd_userdata,
                    c_fd_userdata, reactor, main_alive, stopper, strict, budget,
                    cleanup_functions, cleanup_it, pomp_timers >>

\* run: self._run_task_list(self.async_pomp_task)
LoopRunAsync == RunAsyncList("run_async", "run_deferred", "finally")

\* run: self._run_task_list(self.deferred_pomp_task)
LoopRunDeferred == RunDeferredList("run_deferred", "cond", "finally")

\* run: finally: self.running = False, and the start of _cleanup: the
\* iterator reversed(self.cleanup_functions) is made, at the last element
LoopFinally ==
    /\ pc = "finally"
    /\ running' = FALSE
    /\ cleanup_it' = Len(cleanup_functions)
    /\ hist' = [hist EXCEPT !.exit = "left", !.atexit = cleanup_functions]
    /\ pc' = "cleanup"
    /\ UNCHANGED << count, async_pomp_task, deferred_pomp_task, futures, fut, wakeup_evt,
                    pomp_events, pomp_loop, pomp_fd_callbacks, fd_userdata,
                    c_fd_userdata, reactor, main_alive, stopper, strict, budget,
                    cleanup_functions, pomp_timers >>

\* the cleanup functions are 1..MaxCleanup; those with an even number raise an
\* Exception when called
CleanupFns == 1..MaxCleanup
CleanupRaises(c) == c % 2 = 0

\* _cleanup without the try around cleanup(): what it raises leaves _cleanup
CleanupNoTry(c) == IF CleanupRaises(c) THEN "dead" ELSE "cleanup"

\* _cleanup: try: cleanup() except Exception: logged; where the loop thread is
\* after the call of the cleanup function c
AfterCleanup(c) == "cleanup"

\* _cleanup: one turn of "for cleanup in reversed(self.cleanup_functions)".
\* The iterator holds an index into the list as it is now: it yields the
\* element at that index and steps down, and is exhausted when the index is
\* outside the list; then the list is replaced by an empty one and the drain
\* starts (count = 0).
LoopCleanup ==
    /\ pc = "cleanup"
    /\ IF cleanup_it >= 1 /\ cleanup_it <= Len(cleanup_functions)
       THEN /\ hist' = [hist EXCEPT !.cleaned = Append(@, cleanup_functions[cleanup_it])]
            /\ cleanup_it' = cleanup_it - 1
            /\ pc' = AfterCleanup(cleanup_functions[cleanup_it])
            /\ UNCHANGED << cleanup_functions, count >>
       ELSE /\ cleanup_functions' = << >>
            /\ cleanup_it' = 0
            /\ count' = 0
            /\ pc' = "drain_cond"
            /\ hist' = hist
    /\ UNCHANGED << running, async_pomp_task, deferred_pomp_task, futures, fut,
                    wakeup_evt, pomp_events, pomp_loop, pomp_fd_callbacks, fd_userdata,
                    c_fd_userdata, reactor, main_alive, stopper, strict, budget,
                    pomp_timers >>

\* _cleanup: while self.async_pomp_task or self.deferred_pomp_task or self.futures
LoopDrainCond ==
    /\ pc = "drain_cond"
    /\ pc' = IF async_pomp_task # << >> \/ deferred_pomp_task # << >> \/ futures # {}
             THEN "drain_wait" ELSE "drain_clear"
    /\ hist' = [hist EXCEPT !.cycle = QueuedFutures(async_pomp_task)]
    /\ UNCHANGED << running, count, async_pomp_task, deferred_pomp_task, futures, fut,
                    wakeup_evt, pomp_events, pomp_loop, pomp_fd_callbacks, fd_userdata,
                    c_fd_userdata, reactor, main_alive, stopper, strict, budget,
                    cleanup_functions, cleanup_it, pomp_timers >>

\* _cleanup: self._wait_and_process(), not inside a try: a RuntimeError leaves
\* _cleanup and run, and the thread ends
LoopDrainWait ==
    /\ pc = "drain_wait"
    /\ wakeup_evt' = FALSE
    /\ \E d \in SUBSET reactor.fds : hist' = Dispatch(hist, d)
    /\ \E ans \in {"ok", "fail"} : pc' = IF ans = "ok" THEN "drain_async" ELSE "dead"
    /\ UNCHANGED << running, count, async_pomp_task, deferred_pomp_task, futures, fut,
                    pomp_events, pomp_loop, pomp_fd_callbacks, fd_userdata,
                    c_fd_userdata, reactor, main_alive, stopper, strict, budget,
                    cleanup_functions, cleanup_it, pomp_timers >>

\* _cleanup: self._run_task_list(self.async_pomp_task)
LoopDrainAsync == RunAsyncList("drain_async", "drain_deferred", "dead")

\* _cleanup: self._run_task_list(self.deferred_pomp_task)
LoopDrainDeferred == RunDeferredList("drain_deferred", "drain_count", "dead")

\* _cleanup: if count > 30: break; count += 1
LoopDrainCount ==
    /\ pc = "drain_count"
    /\ IF count > DrainLimit
       THEN pc' = "drain_clear" /\ count' = count
       ELSE pc' = "drain_cond" /\ count' = count + 1
    /\ UNCHANGED << running, async_pomp_task, deferred_pomp_task, futures, fut,
                    wakeup_evt, pomp_events, pomp_loop, pomp_fd_callbacks, fd_userdata,
                    c_fd_userdata, reactor, main_alive, stopper, strict, budget, hist,
                    cleanup_functions, cleanup_it, pomp_timers >>

\* _cleanup: the three lists are replaced by empty ones
LoopDrainClear ==
    /\ pc = "drain_clear"
    /\ async_pomp_task' = << >>
    /\ deferred_pomp_task' = << >>
    /\ futures' = {}
    /\ pc' = "destroy"
    /\ UNCHANGED << running, count, fut, wakeup_evt, pomp_events, pomp_loop,
                    pomp_fd_callbacks, fd_userdata, c_fd_userdata, reactor, main_alive,
                    stopper, strict, budget, hist,
                    cleanup_functions, cleanup_it, pomp_timers >>

\* PompLoopThread._remove_event_from_loop(pomp_evt) for an event of evts
RemoveEventFromLoop(m, evts, evt) ==
    IF evt \in evts /\ m.ans = "ok"
    THEN [m EXCEPT !.reactor.evts = @ \ {evt}]
    ELSE m

\* the loop over the fds of _destroy_pomp_loop_fds; ans[fd] is the reactor's
\* answer to the removal of fd
RECURSIVE RemoveFds(_, _, _)
RemoveFds(m, fds, ans) ==
    IF fds = {} THEN m
    ELSE RemoveFds(RemoveFdFromLoop([m EXCEPT !.ans = ans[CHOOSE x \in fds : TRUE]],
                                    CHOOSE x \in fds : TRUE),
                   fds \ {CHOOSE x \in fds : TRUE}, ans)

\* PompLoopThread._destroy_pomp_loop_fds, with the snapshot of the keys
DestroyPompLoopFds(m, ans) == RemoveFds(m, m.fdcb, ans)

\* od.pomp_loop_destroy: the reactor refuses while something is registered with
\* it and may fail for reasons of its own
PompLoopDestroy(r, ans) ==
    IF ans = "ok" /\ r.fds = {} /\ r.evts = {} /\ r.timers = {} THEN 0 ELSE -1

\* PompLoopThread._destroy_pomp_loop_timers: destroy_timer for every timer of
\* the snapshot; the timers left are those the reactor refused to destroy
DestroyPompLoopTimers(timers, ans) == {t \in timers : ans[t] = "fail"}

\* PompLoopThread.destroy after stop(): the wake event, the fds, the timers and
\* the reactor are released, by the thread thr
Destroy(thr, ansEvt, ansFd, ansTimer, ansLoop) ==
    LET m == DestroyPompLoopFds(
                 RemoveEventFromLoop(Machine(thr, ansEvt), pomp_events, "wakeup_evt"),
                 ansFd)
        left == DestroyPompLoopTimers(pomp_timers, ansTimer)
        r == [m.reactor EXCEPT !.timers = (@ \ pomp_timers) \cup left]
    IN /\ SetHeap([m EXCEPT !.reactor = r,
                            !.hist.ended = IF thr = "loop" THEN m.hist.nappend ELSE @,
                            !.hist.exit = IF thr = "loop" THEN "destroyed" ELSE @])
       /\ pomp_timers' = left
       /\ pomp_loop' = (pomp_loop /\ PompLoopDestroy(r, ansLoop) # 0)
       /\ pomp_events' = pomp_events \ {"wakeup_evt"}

\* run: self.destroy() on the loop thread: stop() finds running false, then
\* the wake event, the fds and the reactor are released; the thread ends
LoopDestroy ==
    /\ pc = "destroy"
    /\ \E ansEvt \in {"ok", "fail"}, ansFd \in [Fds -> {"ok", "fail"}],
          ansTimer \in [Timers -> {"ok", "fail"}], ansLoop \in {"ok", "fail"} :
         Destroy("loop", ansEvt, ansFd, ansTimer, ansLoop)
    /\ running' = FALSE
    /\ pc' = "dead"
    /\ UNCHANGED << count, main_alive, stopper, strict, budget,
                    cleanup_functions, cleanup_it >>

(***************************************************************************)
(* The foreign thread: the public API, called from outside the loop.       *)
(***************************************************************************)

\* the futures a call of fn creates beyond the one of its own task
Nested(fn) ==
    CASE fn \in {"later_inc", "async_inc", "async_raise"} -> 1
      [] fn = "async_later" -> 2
      [] OTHER -> 0

\* the argument a callable is submitted with
ArgsOf(fn) ==
    IF fn \in {"add_fd", "add_fd_nocb", "remove_fd"} THEN {Val(fd) : fd \in Fds} ELSE Args

\* PompLoopThread.start
Start ==
    /\ pc = "new"
    /\ running' = TRUE
    /\ pc' = "attach"
    /\ UNCHANGED << count, async_pomp_task, deferred_pomp_task, futures, fut,
                    wakeup_evt, pomp_events, pomp_loop, pomp_fd_callbacks, fd_userdata,
                    c_fd_userdata, reactor, main_alive, stopper, strict, budget, hist,
                    cleanup_functions, cleanup_it, pomp_timers >>

\* PompLoopThread.start called again: running is set, then Thread.start
\* raises RuntimeError, a thread being started only once
StartAgain ==
    /\ pc # "new"
    /\ stopper = "idle"
    /\ ~running
    /\ running' = TRUE
    /\ UNCHANGED << pc, count, async_pomp_task, deferred_pomp_task, futures, fut,
                    wakeup_evt, pomp_events, pomp_loop, pomp_fd_callbacks, fd_userdata,
                    c_fd_userdata, reactor, main_alive, stopper, strict, budget, hist,
                    cleanup_functions, cleanup_it, pomp_timers >>

\* stop without the join: True is returned at once
StopNoJoin ==
    /\ stopper = "idle"
    /\ running
    /\ running' = FALSE
    /\ wakeup_evt' = TRUE
    /\ hist' = [hist EXCEPT !.stop = "True",
                            !.atstop = QueuedFutures(async_pomp_task) \cup
                                       QueuedFutures(deferred_pomp_task)]
    /\ UNCHANGED << pc, count, async_pomp_task, deferred_pomp_task, futures, fut,
                    pomp_events, pomp_loop, pomp_fd_callbacks, fd_userdata,
                    c_fd_userdata, reactor, main_alive, stopper, strict, budget,
                    cleanup_functions, cleanup_it, pomp_timers >>

\* PompLoopThread.stop from the foreign thread, up to the join
Stop ==
    /\ stopper = "idle"
    /\ running
    /\ running' = FALSE
    /\ wakeup_evt' = TRUE
    /\ stopper' = "join"
    /\ hist' = [hist EXCEPT !.atstop = QueuedFutures(async_pomp_task) \cup
                                       QueuedFutures(deferred_pomp_task)]
    /\ UNCHANGED << pc, count, async_pomp_task, deferred_pomp_task, futures, fut,
                    pomp_events, pomp_loop, pomp_fd_callbacks, fd_userdata,
                    c_fd_userdata, reactor, main_alive, strict, budget,
                    cleanup_functions, cleanup_it, pomp_timers >>

\* PompLoopThread.stop: self.join() returns once the loop thread has ended
StopJoin ==
    /\ stopper = "join"
    /\ pc = "dead"
    /\ stopper' = "idle"
    /\ hist' = [hist EXCEPT !.stop = "True"]
    /\ UNCHANGED << running, pc, count, async_pomp_task, deferred_pomp_task, futures,
                    fut, wakeup_evt, pomp_events, pomp_loop, pomp_fd_callbacks,
                    fd_userdata, c_fd_userdata, reactor, main_alive, strict, budget,
                    cleanup_functions, cleanup_it, pomp_timers >>

\* the main thread ends
MainThreadExit ==
    /\ main_alive
    /\ main_alive' = FALSE
    /\ UNCHANGED << running, pc, count, async_pomp_task, deferred_pomp_task, futures,
                    fut, wakeup_evt, pomp_events, pomp_loop, pomp_fd_callbacks,
                    fd_userdata, c_fd_userdata, reactor, stopper, strict, budget, hist,
                    cleanup_functions, cleanup_it, pomp_timers >>

\* run_async(fn, arg) called by the foreign thread, for fn one of fns
SubmitAsync(fns) ==
    /\ stopper = "idle"
    /\ \E fn \in fns :
         /\ budget.futures >= 1 + Nested(fn)
         /\ budget' = [budget EXCEPT !.futures = @ - (1 + Nested(fn))]
         /\ \E arg \in ArgsOf(fn) : SetHeap(Run(RunAsync(Machine("foreign", "ok"), fn, arg)))
    /\ UNCHANGED << running, pc, count, pomp_events, pomp_loop, main_alive, stopper,
                    strict,
                    cleanup_functions, cleanup_it, pomp_timers >>

\* run_later(fn, arg) called by the foreign thread, for fn one of fns
SubmitLater(fns) ==
    /\ stopper = "idle"
    /\ \E fn \in fns :
         /\ budget.futures >= 1 + Nested(fn)
         /\ budget' = [budget EXCEPT !.futures = @ - (1 + Nested(fn))]
         /\ \E arg \in ArgsOf(fn) : SetHeap(Run(RunLater(Machine("foreign", "ok"), fn, arg)))
    /\ UNCHANGED << running, pc, count, pomp_events, pomp_loop, main_alive, stopper,
                    strict,
                    cleanup_functions, cleanup_it, pomp_timers >>

\* the callables of the task workload: plain ones, and ones that submit again
\* from the loop thread and return the Future they got
TaskCallables == {"inc", "raise", "later_inc", "async_inc", "async_raise", "async_later"}

ForeignRunAsync == SubmitAsync(TaskCallables)

ForeignRunLater == SubmitLater(TaskCallables)

\* the futures then is called on are those of plain tasks
SourceCallables == {"inc", "raise"}

SourceRunAsync == SubmitAsync(SourceCallables)

\* add_fd_to_loop / remove_fd_from_loop: run_async of _add_fd_to_loop (with and
\* without a callback) and of _remove_fd_from_loop
FdCallables == {"add_fd", "add_fd_nocb", "remove_fd"}

ForeignFdRunAsync == SubmitAsync(FdCallables)

\* the callables given to then
ThenCallables == {"inc", "raise", "raise_base", "later_inc", "async_inc"}

\* a.then(fn, deferred) called by the foreign thread on a future it holds
ForeignThen ==
    /\ stopper = "idle"
    /\ \E a \in 1..Len(fut), fn \in ThenCallables, deferred \in BOOLEAN :
         /\ budget.futures >= 2 + Nested(fn)
         /\ budget' = [budget EXCEPT !.futures = @ - (2 + Nested(fn))]
         /\ SetHeap(Run(Then(Machine("foreign", "ok"), a, fn, deferred)))
    /\ UNCHANGED << running, pc, count, pomp_events, pomp_loop, main_alive, stopper,
                    strict,
                    cleanup_functions, cleanup_it, pomp_timers >>

\* f.cancel() called by the foreign thread on a future that is not done (as
\* result_or_cancel does when its wait times out)
ForeignCancel ==
    /\ stopper = "idle"
    /\ budget.cancels >= 1
    /\ budget' = [budget EXCEPT !.cancels = @ - 1]
    /\ \E f \in 1..Len(fut) :
         /\ ~Done(Machine("foreign", "ok"), f)
         /\ SetHeap(Run(CancelFuture(Machine("foreign", "ok"), f)))
    /\ UNCHANGED << running, pc, count, pomp_events, pomp_loop, main_alive, stopper,
                    strict,
                    cleanup_functions, cleanup_it, pomp_timers >>

\* PompLoopThread.stop from the foreign thread when the loop is not running:
\* nothing is done and False is returned
StopNotRunning ==
    /\ stopper = "idle"
    /\ ~running
    /\ hist' = [hist EXCEPT !.stop = "False"]
    /\ UNCHANGED << running, pc, count, async_pomp_task, deferred_pomp_task, futures,
                    fut, wakeup_evt, pomp_events, pomp_loop, pomp_fd_callbacks,
                    fd_userdata, c_fd_userdata, reactor, main_alive, stopper, strict,
                    budget, cleanup_functions, cleanup_it, pomp_timers >>

\* run_async(self.stop) from the foreign thread: stop will be called on the
\* loop thread
LoopStopCallables == {"stop", "inc"}

ForeignRunAsyncStop == SubmitAsync(LoopStopCallables)

\* PompLoopThread.register_cleanup(c), called by the foreign thread for a
\* cleanup function that is not registered
RegisterCleanup ==
    /\ stopper = "idle"
    /\ \E c \in CleanupFns :
         /\ \A i \in 1..Len(cleanup_functions) : cleanup_functions[i] # c
         /\ cleanup_functions' = Append(cleanup_functions, c)
    /\ UNCHANGED << running, pc, count, async_pomp_task, deferred_pomp_task, futures,
                    fut, wakeup_evt, pomp_events, pomp_loop, pomp_fd_callbacks,
                    fd_userdata, c_fd_userdata, reactor, main_alive, stopper, strict,
                    budget, hist, cleanup_it, pomp_timers >>

\* list.remove(c): the list without the first c
Remove(q, c) ==
    LET i == CHOOSE k \in 1..Len(q) : q[k] = c /\ \A j \in 1..(k - 1) : q[j] # c
    IN SubSeq(q, 1, i - 1) \o SubSeq(q, i + 1, Len(q))

\* PompLoopThread.unregister_cleanup(c), called by the foreign thread for a
\* registered cleanup function (for another one ValueError is raised or
\* ignored, and nothing changes)
UnregisterCleanup ==
    /\ stopper = "idle"
    /\ \E i \in 1..Len(cleanup_functions) :
         cleanup_functions' = Remove(cleanup_functions, cleanup_functions[i])
    /\ UNCHANGED << running, pc, count, async_pomp_task, deferred_pomp_task, futures,
                    fut, wakeup_evt, pomp_events, pomp_loop, pomp_fd_callbacks,
                    fd_userdata, c_fd_userdata, reactor, main_alive, stopper, strict,
                    budget, hist, cleanup_it >>
    /\ pomp_timers' = pomp_timers

\* PompLoopThread.create_timer(callback), called by the foreign thread:
\* od.pomp_timer_new gives a new timer, which is recorded, or None, and
\* RuntimeError is raised
CreateTimer ==
    /\ stopper = "idle"
    /\ pomp_loop
    /\ \E t \in Timers \ reactor.timers, ans \in {"ok", "fail"} :
         IF ans = "ok"
         THEN /\ pomp_timers' = pomp_timers \cup {t}
              /\ reactor' = [reactor EXCEPT !.timers = @ \cup {t}, !.adds = @ + 1]
         ELSE /\ pomp_timers' = pomp_timers
              /\ reactor' = [reactor EXCEPT !.adds = @ + 1]
    /\ reactor.adds < MaxTimerCalls
    /\ UNCHANGED << running, pc, count, async_pomp_task, deferred_pomp_task, futures,
                    fut, wakeup_evt, pomp_events, pomp_loop, pomp_fd_callbacks,
                    fd_userdata, c_fd_userdata, main_alive, stopper, strict,
                    budget, hist, cleanup_functions, cleanup_it >>

\* PompLoopThread.destroy_timer(t), called by the foreign thread for a timer
\* of pomp_timers (for another one False is returned and nothing changes);
\* the timer stays recorded when od.pomp_timer_destroy fails
DestroyTimer ==
    /\ stopper = "idle"
    /\ \E t \in pomp_timers, ans \in {"ok", "fail"} :
         IF ans = "ok"
         THEN /\ pomp_timers' = pomp_timers \ {t}
              /\ reactor' = [reactor EXCEPT !.timers = @ \ {t}, !.removes = @ + 1]
         ELSE /\ pomp_timers' = pomp_timers
              /\ reactor' = [reactor EXCEPT !.removes = @ + 1]
    /\ reactor.removes < MaxTimerCalls
    /\ UNCHANGED << running, pc, count, async_pomp_task, deferred_pomp_task, futures,
                    fut, wakeup_evt, pomp_events, pomp_loop, pomp_fd_callbacks,
                    fd_userdata, c_fd_userdata, main_alive, stopper, strict,
                    budget, hist, cleanup_functions, cleanup_it >>

\* PompLoopThread.destroy called by the foreign thread when the loop thread
\* is not alive: stop() finds the loop not running, or has just joined it
ForeignDestroy ==
    /\ stopper = "idle"
    /\ ~running
    /\ pc \in {"new", "dead"}
    /\ \E ansEvt \in {"ok", "fail"}, ansFd \in [Fds -> {"ok", "fail"}],
          ansTimer \in [Timers -> {"ok", "fail"}], ansLoop \in {"ok", "fail"} :
         Destroy("foreign", ansEvt, ansFd, ansTimer, ansLoop)
    /\ UNCHANGED << running, pc, count, main_alive, stopper, strict, budget,
                    cleanup_functions, cleanup_it >>

\* the loop thread
LoopStep ==
    \/ LoopAttach
    \/ LoopCond
    \/ LoopWait
    \/ LoopRunAsync
    \/ LoopRunDeferred
    \/ LoopFinally
    \/ LoopCleanup
    \/ LoopDrainCond
    \/ LoopDrainWait
    \/ LoopDrainAsync
    \/ LoopDrainDeferred
    \/ LoopDrainCount
    \/ LoopDrainClear
    \/ LoopDestroy

\* Spec: tasks submitted, cancelled, and the loop stopped, from outside
Next ==
    \/ LoopStep
    \/ Start
    \/ Stop
    \/ StopJoin
    \/ MainThreadExit
    \/ ForeignRunAsync
    \/ ForeignRunLater
    \/ ForeignCancel

Spec == Init /\ [][Next]_vars

\* SpecThen: futures composed with then from outside, on a loop that is left
\* running
NextThen ==
    \/ LoopStep
    \/ Start
    \/ SourceRunAsync
    \/ ForeignThen
    \/ ForeignCancel

InitThen == InitWith(MaxThenFutures, MaxCancels)

SpecThen == InitThen /\ [][NextThen]_vars

\* SpecFd: fds added and removed from outside
NextFd ==
    \/ LoopStep
    \/ Start
    \/ Stop
    \/ StopJoin
    \/ ForeignFdRunAsync

SpecFd == Init /\ [][NextFd]_vars

\* SpecReg: the loop started and stopped, from outside and from a task, while
\* cleanup functions and timers are registered from outside
NextReg ==
    \/ LoopStep
    \/ Start
    \/ Stop
    \/ StopJoin
    \/ StopNotRunning
    \/ StartAgain
    \/ ForeignRunAsyncStop
    \/ RegisterCleanup
    \/ UnregisterCleanup
    \/ CreateTimer
    \/ DestroyTimer
    \/ ForeignDestroy

InitReg == InitWith(MaxRegFutures, 0)

SpecReg == InitReg /\ [][NextReg]_vars

(***************************************************************************)
(* Vocabulary of the properties.                                           *)
(***************************************************************************)
FutureIds == 1..Len(fut)
Terminal(f) == fut[f].state \in {"CANCELLED", "CANCELLED_AND_NOTIFIED", "FINISHED"}
IsCancelled(f) == fut[f].state \in {"CANCELLED", "CANCELLED_AND_NOTIFIED"}
TerminalIn(F, f) ==
    f <= Len(F) /\ F[f].state \in {"CANCELLED", "CANCELLED_AND_NOTIFIED", "FINISHED"}
\* among the futures F (fut, or fut' after the step)
FulfilledIn(F, f, v) == F[f].state = "FINISHED" /\ F[f].exception = "" /\ F[f].result = v
FailedIn(F, f, e) == F[f].state = "FINISHED" /\ F[f].exception = e
Fulfilled(f, v) == FulfilledIn(fut, f, v)
Failed(f, e) == FailedIn(fut, f, e)
\* among the futures F, b has the outcome of a: cancelled like a, or finished
\* with the exception of a, or with the result of a when a has no exception
SameOutcomeIn(F, a, b) ==
    \/ /\ F[a].state \in {"CANCELLED", "CANCELLED_AND_NOTIFIED"}
       /\ F[b].state \in {"CANCELLED", "CANCELLED_AND_NOTIFIED"}
    \/ /\ F[a].state = "FINISHED" /\ F[b].state = "FINISHED"
       /\ F[b].exception = F[a].exception
       /\ F[a].exception = "" => F[b].result = F[a].result
SameOutcome(a, b) == SameOutcomeIn(fut, a, b)
\* the places of the executions of f's callable in the order of the executions
ExecutionsOf(f) == {i \in 1..Len(hist.exec) : hist.exec[i] = f}
Executed(f) == ExecutionsOf(f) # {}
\* the loop thread is in its main iteration
MainIteration == pc \in {"cond", "wait", "run_async", "run_deferred"}
\* the task that a turn of _run_task_list pops at the loop's position
CurrentTask ==
    IF pc \in {"run_async", "drain_async"} THEN Head(async_pomp_task)
    ELSE Head(deferred_pomp_task)
\* the step is a turn of _run_task_list: a task is popped and its callable called
TaskStep ==
    /\ Len(hist'.exec) > Len(hist.exec)
    /\ pc \in {"run_async", "drain_async", "run_deferred", "drain_deferred"}

(***************************************************************************)
(* C1.  Every Future that run_async returned to the foreign thread reaches *)
(* a terminal state, whenever it was submitted; FULFILLED with the value   *)
(* when the callable returns one.  Stated on the end of the run: once the  *)
(* loop thread has ended after an orderly shutdown (the reactor is         *)
(* destroyed) no future is completed any more, so by then every such       *)
(* Future that was submitted before the thread ended is terminal, and one  *)
(* whose callable is "inc" and that nobody cancelled holds arg + 1.        *)
(***************************************************************************)
C1_SubmittedFutureEnds ==
    (pc = "dead" /\ ~pomp_loop) =>
        \A f \in FutureIds :
            (fut[f].origin = "async" /\ fut[f].by = "foreign" /\ fut[f].seq <= hist.ended) =>
                /\ Terminal(f)
                /\ (fut[f].fn = "inc" /\ ~IsCancelled(f)) => Fulfilled(f, Inc(fut[f].arg))

ByRunAsyncOnLoop(f) == fut[f].origin \in {"async", "inline"} /\ fut[f].by = "loop"

\* C3: run_async called on the loop thread runs the callable inline
C3_InlineRunAsync ==
    [][/\ \A f \in FutureIds' :
            (ByRunAsyncOnLoop(f))' =>
               /\ f \notin (QueuedFutures(async_pomp_task) \cup
                            QueuedFutures(deferred_pomp_task))'
               /\ (Cardinality(ExecutionsOf(f)))' = 1
               /\ fut'[f].fn \in {"inc", "raise"} => (Terminal(f))'
       /\ (\E f \in FutureIds' : f > Len(fut) /\ (ByRunAsyncOnLoop(f))') =>
              wakeup_evt' = wakeup_evt
    ]_vars

\* run_async has been called on the loop thread with a callable that returns
\* a value; its Future holds the value, and the task that called it too
C3_Witness ==
    \E f \in FutureIds :
        /\ ByRunAsyncOnLoop(f)
        /\ fut[f].fn = "inc"
        /\ Fulfilled(f, Val(1))
        /\ ~wakeup_evt
        /\ \E t \in FutureIds : fut[t].fn = "async_inc" /\ Fulfilled(t, Val(1))

(***************************************************************************)
(* C4.  A task given to run_later by the foreign thread never runs before  *)
(* an immediate task that the same thread had queued before and that was   *)
(* still queued at the time of the run_later call.                         *)
(***************************************************************************)
C4_LaterAfterQueuedImmediate ==
    \A i \in 1..Len(hist.exec) :
        \A a \in fut[hist.exec[i]].before :
            \E j \in 1..(i - 1) : hist.exec[j] = a

(***************************************************************************)
(* C5.  The tasks of one task list run in the order of their appending:    *)
(* of two tasks of the same list that have run, the one appended first ran *)
(* first, and no task still queued was appended before one of its list     *)
(* that has run.  A task of the deferred list runs only when every         *)
(* immediate task that was queued when the poll cycle began has run.       *)
(***************************************************************************)
Queued(f) == f \in (QueuedFutures(async_pomp_task) \cup QueuedFutures(deferred_pomp_task))
SameList(f, g) ==
    /\ fut[f].seq > 0 /\ fut[g].seq > 0
    /\ (fut[f].origin = "later") = (fut[g].origin = "later")
FifoOrder ==
    /\ \A i, j \in 1..Len(hist.exec) :
          (i < j /\ SameList(hist.exec[i], hist.exec[j])) =>
              fut[hist.exec[i]].seq < fut[hist.exec[j]].seq
    /\ \A i \in 1..Len(hist.exec) : \A g \in FutureIds :
          (Queued(g) /\ SameList(hist.exec[i], g)) => fut[hist.exec[i]].seq < fut[g].seq

\* C5: tasks run in the order of their lists, the immediate list first
C5_FifoAndImmediateFirst ==
    [][/\ FifoOrder'
       /\ (TaskStep /\ pc \in {"run_deferred", "drain_deferred"}) =>
              \A a \in hist.cycle : Executed(a)
    ]_vars

\* in one iteration the loop has run an immediate task queued before the poll,
\* then one that the foreign thread appended during the drain, then a deferred
\* task
C5_Witness ==
    /\ pc = "run_deferred"
    /\ \E i, j, k \in 1..Len(hist.exec) :
         /\ i < j /\ j < k
         /\ fut[hist.exec[i]].origin = "async" /\ hist.exec[i] \in hist.cycle
         /\ fut[hist.exec[j]].origin = "async" /\ hist.exec[j] \notin hist.cycle
         /\ fut[hist.exec[k]].origin = "later"

(***************************************************************************)
(* C6.  For a.chain(b): in the step in which a becomes terminal (or in     *)
(* which chain is called on an a that is terminal already), a b that was   *)
(* not terminal before the step ends with the outcome of a (FULFILLED with *)
(* the same value, FAILED with the same error, cancelled when a is         *)
(* cancelled), and a b that was terminal before the step is unchanged.     *)
(***************************************************************************)
C6_ChainPropagates ==
    [][\A p \in hist'.chains :
          (TerminalIn(fut', p[1]) /\ ~(p \in hist.chains /\ TerminalIn(fut, p[1]))) =>
              IF TerminalIn(fut, p[2])
              THEN fut'[p[2]] = fut[p[2]]
              ELSE SameOutcomeIn(fut', p[1], p[2])
    ]_vars

\* a task has returned the Future of a task that was waiting in the deferred
\* list; that Future has then been FULFILLED, and the Future chained to it has
\* been FULFILLED with the same value
C6_Witness ==
    \E p \in hist.chains :
        /\ fut[p[1]].origin = "later" /\ Executed(p[1])
        /\ Fulfilled(p[1], Val(1)) /\ Fulfilled(p[2], Val(1))

(***************************************************************************)
(* C7.  For c = a.then(f): c never holds a Future object as its result;    *)
(* when f returns a Future, c takes that Future's outcome.                 *)
(***************************************************************************)
C7_ThenNeverHoldsFuture ==
    \A p \in hist.thens : fut[p[2]].result.k # "fut"

(***************************************************************************)
(* C8.  For c = a.then(f): when a has ended FAILED or cancelled, reading   *)
(* its result raises inside the callback of then, and c ends FAILED (or    *)
(* cancelled): c is terminal as soon as the callback has run, that is in   *)
(* every state in which a is terminal without a result.                    *)
(***************************************************************************)
C8_ThenErrorEndsResult ==
    \A p \in hist.thens :
        (Terminal(p[1]) /\ (IsCancelled(p[1]) \/ fut[p[1]].exception # "")) =>
            Terminal(p[2])

(***************************************************************************)
(* C9.  A task (of either list, or of run_async on the loop thread) whose  *)
(* callable returned the Future F: the task's Future never holds a Future  *)
(* object as its result; while F is not terminal it is not terminal        *)
(* either, unless it was cancelled; once F is terminal it is terminal with *)
(* the outcome of F, unless it was cancelled before.                       *)
(***************************************************************************)
C9_ReturnedFutureIsChained ==
    /\ \A t \in FutureIds : fut[t].origin # "then" => fut[t].result.k # "fut"
    /\ \A p \in hist.chains :
          fut[p[2]].origin # "then" =>
             /\ ~Terminal(p[1]) => (~Terminal(p[2]) \/ IsCancelled(p[2]))
             /\ Terminal(p[1]) =>
                   (Terminal(p[2]) /\ (SameOutcome(p[1], p[2]) \/ IsCancelled(p[2])))

\* a queued task has called run_async on the loop thread with a callable
\* that returns the Future of run_later: the inline task's Future and the
\* queued task's Future have both been FULFILLED with the deferred task's value
C9_Witness ==
    \E p, q \in hist.chains :
        /\ q[2] = p[1]
        /\ fut[p[2]].origin = "async" /\ fut[p[2]].by = "foreign"
        /\ fut[q[2]].origin = "inline" /\ fut[q[1]].origin = "later"
        /\ Fulfilled(q[1], Val(1)) /\ Fulfilled(q[2], Val(1)) /\ Fulfilled(p[2], Val(1))

(***************************************************************************)
(* C10.  A turn of _run_task_list that runs _remove_fd_from_loop(fd) when  *)
(* the last operation on fd was a removal changes none of the three fd     *)
(* registries, makes no call to the reactor, and resolves the task's       *)
(* Future with True.                                                       *)
(***************************************************************************)
C10_SecondRemoveIsNoOp ==
    [][(TaskStep /\ CurrentTask.fn = "remove_fd"
                 /\ hist.fdop[CurrentTask.arg.v] = "remove") =>
          /\ UNCHANGED << pomp_fd_callbacks, fd_userdata, c_fd_userdata, reactor >>
          /\ fut[CurrentTask.future].state = "PENDING" =>
                FulfilledIn(fut', CurrentTask.future, BoolV(TRUE))
    ]_vars

\* an fd was added and removed twice; the reactor refused the first removal
\* (its task holds False) and the second removal's task holds True
C10_Witness ==
    \E i, j \in 1..Len(hist.exec) :
        /\ i < j
        /\ fut[hist.exec[i]].fn = "remove_fd" /\ fut[hist.exec[j]].fn = "remove_fd"
        /\ fut[hist.exec[i]].arg = fut[hist.exec[j]].arg
        /\ Fulfilled(hist.exec[i], BoolV(FALSE))
        /\ Fulfilled(hist.exec[j], BoolV(TRUE))
        /\ reactor.removes = 1

(***************************************************************************)
(* C11.  The foreign thread has called add_fd_to_loop(fd, cb, ...) and,    *)
(* while that task was still queued, remove_fd_from_loop(fd) right behind  *)
(* it.  Once the loop has run both, and as long as it has run no later     *)
(* _add_fd_to_loop(fd), fd is in none of the three fd registries, it is    *)
(* not registered with the reactor and its callback has not been           *)
(* dispatched since the add (C11_AsStated).                                *)
(***************************************************************************)
\* r is a removal of the fd that the task queued right before it adds, and the
\* loop has run both and no add of that fd since
AddThenRemove(r) ==
    /\ fut[r].fn = "remove_fd" /\ fut[r].by = "foreign" /\ fut[r].behind # 0
    /\ fut[fut[r].behind].fn = "add_fd" /\ fut[fut[r].behind].arg = fut[r].arg
    /\ Executed(fut[r].behind) /\ Executed(r)
    /\ \A k \in 1..Len(hist.exec) :
          (fut[hist.exec[k]].fn = "add_fd" /\ fut[hist.exec[k]].arg = fut[r].arg) =>
              \E j \in ExecutionsOf(r) : k < j

\* C11 where the reactor accepts the removal: fd is in none of the registries,
\* and when the removal reported success fd is not registered with the reactor
\* and its callback has not been dispatched since the add
C11_AddThenRemoveLeavesNothing ==
    \A r \in FutureIds :
        AddThenRemove(r) =>
            /\ fut[r].arg.v \notin (pomp_fd_callbacks \cup fd_userdata \cup c_fd_userdata)
            /\ Fulfilled(r, BoolV(TRUE)) =>
                  /\ fut[r].arg.v \notin reactor.fds
                  /\ ~hist.disp[fut[r].arg.v]

\* C11 as stated, whatever the reactor answers
C11_AsStated ==
    \A r \in FutureIds :
        AddThenRemove(r) =>
            /\ fut[r].arg.v \notin (pomp_fd_callbacks \cup fd_userdata \cup c_fd_userdata)
            /\ fut[r].arg.v \notin reactor.fds
            /\ ~hist.disp[fut[r].arg.v]

\* both tasks were queued before the loop thread was started; the loop has run
\* them, the reactor accepted the add and the removal, and the loop has waited
\* on the reactor again since
C11_Witness ==
    \E r \in FutureIds :
        /\ AddThenRemove(r)
        /\ fut[fut[r].behind].state = "FINISHED" /\ fut[fut[r].behind].exception = ""
        /\ Fulfilled(r, BoolV(TRUE))
        /\ reactor.adds = 1 /\ reactor.removes = 1
        /\ hist.exec = << fut[r].behind, r >>
        /\ pc = "run_async" /\ hist.cycle = {}

(***************************************************************************)
(* C12.  The loop thread destroys the reactor (the end of destroy(), after *)
(* _cleanup) only when the drain window is exhausted (count > 30) or when  *)
(* both task lists and the set of live futures are empty and every task    *)
(* that was queued when stop() was called has been run.                    *)
(***************************************************************************)
C12_DestroyAfterDrain ==
    [][(pc = "destroy" /\ pc' = "dead") =>
          \/ count > DrainLimit
          \/ /\ async_pomp_task = << >> /\ deferred_pomp_task = << >> /\ futures = {}
             /\ \A f \in hist.atstop : Executed(f)
    ]_vars

\* C12 for the tasks that were queued when stop() was called only: the loop
\* thread destroys the reactor after it has run them, or after the drain window
C12_StopTasksDrained ==
    [][(pc = "destroy" /\ pc' = "dead") =>
          (count > DrainLimit \/ \A f \in hist.atstop : Executed(f))
    ]_vars

C13_WitnessOnLoop ==
    /\ hist.stop = "True" /\ stopper = "idle" /\ pc = "dead" /\ ~running
    /\ \E f \in FutureIds : fut[f].fn = "stop" /\ Fulfilled(f, BoolV(TRUE))

FdRegistryMatches == pomp_fd_callbacks = reactor.fds
EventRegistryMatches == pomp_events = reactor.evts
TimerRegistryMatches == pomp_timers = reactor.timers

\* C14: the fd, event and timer registries hold what the reactor holds
C14_RegistryMatchesReactor ==
    FdRegistryMatches /\ EventRegistryMatches /\ TimerRegistryMatches

(***************************************************************************)
(* C15.  In every state, the futures in PompLoopThread.futures are exactly *)
(* the futures that are not terminal: a Future is registered when created  *)
(* and unregistered by its first done callback.                            *)
(***************************************************************************)
C15_LiveSetTracksPending ==
    \A f \in FutureIds : (f \in futures) <=> ~Terminal(f)

\* C15 up to the end of the drain: while the loop thread has not reset the
\* lists at the end of _cleanup
C15_TrackedUntilCleanup ==
    pc \notin {"destroy", "dead"} => C15_LiveSetTracksPending

(***************************************************************************)
(* C16.  When _cleanup has gone through the cleanup functions and starts   *)
(* the drain, no cleanup function has been called twice, every function    *)
(* that was registered when the loop left its main iteration and still is  *)
(* has been called once, whether or not some of them raised, the list of   *)
(* cleanup functions is empty then, and the loop thread has not ended in   *)
(* between.                                                                *)
(***************************************************************************)
RECURSIVE Reverse(_)
Reverse(q) == IF q = << >> THEN << >> ELSE Append(Reverse(Tail(q)), Head(q))

Count(q, c) == Cardinality({i \in 1..Len(q) : q[i] = c})

\* C16: at the end of the for of _cleanup, each registered function was called once
C16_EachCleanupOnce ==
    [][pc = "cleanup" =>
          /\ pc' \in {"cleanup", "drain_cond"}
          /\ pc' = "drain_cond" =>
                /\ cleanup_functions' = << >>
                /\ \A c \in CleanupFns :
                     /\ Count(hist.cleaned, c) <= 1
                     /\ (Count(hist.atexit, c) = 1 /\ Count(cleanup_functions, c) = 1)
                           => Count(hist.cleaned, c) = 1
    ]_vars

\* SpecReg where no thread registers or unregisters a cleanup function while
\* the loop thread goes through the list
NextRegUndisturbed ==
    NextReg /\ ~(pc = "cleanup" /\ cleanup_functions' # cleanup_functions /\ pc' = "cleanup")
SpecRegUndisturbed == InitReg /\ [][NextRegUndisturbed]_vars

\* C16 as it holds when the list is left alone during _cleanup: the functions
\* called are those of the list at the exit of the main iteration, each once,
\* the last registered first
C16_CleanupLifoOnce ==
    [][pc = "cleanup" =>
          /\ pc' \in {"cleanup", "drain_cond"}
          /\ pc' = "drain_cond" =>
                (hist.cleaned = Reverse(hist.atexit) /\ cleanup_functions' = << >>)
    ]_vars

C16_WitnessLifo ==
    /\ pc = "drain_cond"
    /\ Len(hist.atexit) = 2
    /\ hist.cleaned = Reverse(hist.atexit)

(***************************************************************************)
(* C17.  When the loop thread has ended after it left its main iteration,  *)
(* it has run destroy(): the registrations were detached and the reactor   *)
(* was asked to destroy the loop, whatever the reactor answered to the     *)
(* waits of the drain.                                                     *)
(***************************************************************************)
C17_ShutdownReleases ==
    (pc = "dead" /\ hist.exit # "none") => hist.exit = "destroyed"

\* the drain makes at most DrainLimit + 2 turns
C17_DrainBounded == count <= DrainLimit + 1

(***************************************************************************)
(* C18.  A Future that is cancelled stays cancelled, and a Future that is  *)
(* finished stays finished with the same result and the same exception,    *)
(* whatever step comes next: the execution of its task, set_from, a chain, *)
(* cancel.                                                                 *)
(***************************************************************************)
\* the Future f of F and of G (F after a step) have the same terminal outcome
SameTerminal(F, G, f) ==
    /\ F[f].state \in {"CANCELLED", "CANCELLED_AND_NOTIFIED"}
          => G[f].state \in {"CANCELLED", "CANCELLED_AND_NOTIFIED"}
    /\ F[f].state = "FINISHED"
          => /\ G[f].state = "FINISHED"
             /\ G[f].result = F[f].result
             /\ G[f].exception = F[f].exception

\* C18: no step changes the outcome of a terminal Future
C18_TerminalIsFinal ==
    [][\A f \in FutureIds : Terminal(f) => SameTerminal(fut, fut', f)]_vars

\* C18 for an interpreter whose set_result and set_exception refuse a Future
\* that is done (InvalidStateError)
C18_TerminalIsFinalStrict ==
    [][strict => \A f \in FutureIds : Terminal(f) => SameTerminal(fut, fut', f)]_vars

(***************************************************************************)
(* C19.  Every step that changes the fd, event or timer registry or the    *)
(* list of cleanup functions, and every step that calls the reactor to     *)
(* register or release something, is a step of the loop thread.            *)
(***************************************************************************)
\* the step changes the timer registry or the list of cleanup functions
TimerOrCleanupChanged ==
    pomp_timers' # pomp_timers \/ cleanup_functions' # cleanup_functions

\* the step changes the fd or event registry
FdOrEventChanged ==
    \/ pomp_fd_callbacks' # pomp_fd_callbacks
    \/ fd_userdata' # fd_userdata
    \/ c_fd_userdata' # c_fd_userdata
    \/ pomp_events' # pomp_events

\* the step calls the reactor (a registration, a release, the destruction)
ReactorCalled == reactor' # reactor \/ pomp_loop' # pomp_loop

C19_LoopThreadConfinement ==
    [][(TimerOrCleanupChanged \/ FdOrEventChanged \/ ReactorCalled) => LoopStep]_vars

\* C19 for add_fd_to_loop and remove_fd_from_loop, which go through run_async
C19_FdConfinement ==
    [][(FdOrEventChanged \/ ReactorCalled) => LoopStep]_vars

\* C19 for the steps taken while the loop thread is in its main iteration
C19_ConfinementWhileRunning ==
    [][(MainIteration /\ (TimerOrCleanupChanged \/ FdOrEventChanged \/ ReactorCalled))
          => LoopStep]_vars

(***************************************************************************)
(* C20.  The loop leaves its main iteration only at the test of its while, *)
(* when running is false or the main thread is dead; in particular not     *)
(* when it executes a task whose Future was cancelled while queued, and    *)
(* the tasks queued behind that task are executed and their Futures        *)
(* resolved.                                                               *)
(***************************************************************************)
C20_LeavesOnlyAtTest ==
    [][(MainIteration /\ ~MainIteration') =>
          (pc = "cond" /\ pc' = "finally" /\ ~(running /\ main_alive))]_vars

\* C20 for an interpreter whose set_result does not check the state of the
\* Future: nothing is raised for a cancelled Future
C20_LeavesOnlyAtTestLenient ==
    [][(~strict /\ MainIteration /\ ~MainIteration') =>
          (pc = "cond" /\ pc' = "finally" /\ ~(running /\ main_alive))]_vars

====
